---- MODULE Spec2Model ----
(***************************************************************************)
(* Model of 3rd-party-impact/3rd-party-impact.js: the command-line run     *)
(* (URL check, Chrome launch, Lighthouse audit, result shaping, OAuth,     *)
(* Drive copy, Sheets update) as a chain of callbacks, and its two pure    *)
(* helpers (mapTagNameToType, parseInt on a Number).                       *)
(*                                                                         *)
(* Strings are sequences of one-character strings.  A JavaScript value     *)
(* that may be undefined is Some(v) or None.  A Number is a decimal        *)
(* [s, e] standing for s * 10^e.                                           *)
(***************************************************************************)
EXTENDS Integers, Sequences, FiniteSets

VARIABLES
  argv,        \* positional arguments after the script name (process.argv[2..])
  pc,          \* which callback the run is waiting for
  chrome,      \* the Chrome instance: "none", "alive", "killed"
  items,       \* lhResults.audits["third-party-summary"].details.items
  result,      \* the rows built by the result-shaping loop
  cbItems,     \* the items argument addResultsToSpeadsheet was called with
  spreadsheetID, \* res.data.id of the Drive copy
  tokenWrite,  \* fs.writeFile(TOKEN_PATH): "none", "pending", "done"
  calls,       \* external calls made so far, in order
  log,         \* what the program itself wrote with console.log / console.error
  replies,     \* how the external calls settled so far, in order
  fault,       \* an error nobody handled: None or Some(<<kind, error>>)
  arg,         \* input of the pure-function specifications
  out          \* output of the pure-function specifications

vars == <<argv, pc, chrome, items, result, cbItems, spreadsheetID, tokenWrite,
          calls, replies, log, fault, arg, out>>

pipeVars == <<argv, pc, chrome, items, result, cbItems, spreadsheetID,
              tokenWrite, calls, replies, log, fault>>

----------------------------------------------------------------------------
(* Bounds *)

MaxItems == 2
MaxFrags == 3

----------------------------------------------------------------------------
(* JavaScript values *)

Some(v) == [defined |-> TRUE, val |-> v]
None == [defined |-> FALSE]

Min(S) == CHOOSE x \in S : \A y \in S : x <= y

RECURSIVE Pow10(_)
Pow10(n) == IF n <= 0 THEN 1 ELSE 10 * Pow10(n - 1)

ToLowerChar(c) ==
  CASE c = "A" -> "a" [] c = "D" -> "d" [] c = "S" -> "s" [] c = "N" -> "n"
    [] c = "L" -> "l" [] c = "Y" -> "y" [] c = "T" -> "t" [] c = "I" -> "i"
    [] c = "C" -> "c" [] c = "E" -> "e" [] c = "G" -> "g" [] c = "X" -> "x"
    [] OTHER -> c

\* String.prototype.toLowerCase
toLowerCase(s) == [i \in 1..Len(s) |-> ToLowerChar(s[i])]

\* String.prototype.indexOf: 0-based position of the first occurrence, or -1
indexOf(s, p) ==
  LET occ == {i \in 0..(Len(s) - Len(p)) : SubSeq(s, i + 1, i + Len(p)) = p}
  IN  IF occ = {} THEN -1 ELSE Min(occ)

----------------------------------------------------------------------------
(* Numbers: [s, e] stands for the non-negative value s * 10^e *)

Dec(s, e) == [s |-> s, e |-> e]

RECURSIVE Norm(_)
\* the same value with no trailing zero in its significand
Norm(d) ==
  IF d.s = 0 THEN Dec(0, 0)
  ELSE IF d.s % 10 = 0 THEN Norm(Dec(d.s \div 10, d.e + 1))
  ELSE d

DigitChar(n) == <<"0", "1", "2", "3", "4", "5", "6", "7", "8", "9">>[n + 1]

IsDigit(c) == c \in {"0", "1", "2", "3", "4", "5", "6", "7", "8", "9"}

DigitVal(c) == CHOOSE n \in 0..9 : DigitChar(n) = c

RECURSIVE DigitsOf(_)
DigitsOf(n) ==
  IF n < 10 THEN <<DigitChar(n)>>
  ELSE DigitsOf(n \div 10) \o <<DigitChar(n % 10)>>

Zeros(n) == [i \in 1..n |-> "0"]

\* Number::toString(x) of ECMAScript for a finite x >= 0: with k significant
\* digits and x = 0.d1..dk * 10^n, plain decimal notation when -6 < n <= 21
\* and exponent notation otherwise.
NumberToString(x) ==
  LET m  == Norm(x)
      dg == DigitsOf(m.s)
      k  == Len(dg)
      n  == k + m.e
      ex == IF n - 1 < 0 THEN 1 - n ELSE n - 1
      sg == IF n - 1 < 0 THEN "-" ELSE "+"
  IN  IF m.s = 0 THEN <<"0">>
      ELSE IF k <= n /\ n <= 21 THEN dg \o Zeros(n - k)
      ELSE IF 0 < n /\ n <= 21
        THEN SubSeq(dg, 1, n) \o <<".">> \o SubSeq(dg, n + 1, k)
      ELSE IF -6 < n /\ n <= 0 THEN <<"0", ".">> \o Zeros(-n) \o dg
      ELSE IF k = 1 THEN dg \o <<"e", sg>> \o DigitsOf(ex)
      ELSE <<dg[1], ".">> \o SubSeq(dg, 2, k) \o <<"e", sg>> \o DigitsOf(ex)

NaN == [nan |-> TRUE]
Num(n) == [nan |-> FALSE, num |-> n, den |-> 1]
Ratio(p, q) == [nan |-> FALSE, num |-> p, den |-> q]

RECURSIVE DigitsValue(_)
DigitsValue(s) ==
  IF s = <<>> THEN 0
  ELSE 10 * DigitsValue(SubSeq(s, 1, Len(s) - 1)) + DigitVal(s[Len(s)])

\* the longest prefix of s made of decimal digits
DigitPrefix(s) ==
  LET stops == {i \in 1..Len(s) : ~IsDigit(s[i])}
  IN  IF stops = {} THEN s ELSE SubSeq(s, 1, Min(stops) - 1)

\* parseInt(x) for a Number x >= 0: x is converted to a string, and the
\* integer is read from the string's leading decimal digits.
parseInt(x) ==
  LET z == DigitPrefix(NumberToString(x))
  IN  IF z = <<>> THEN NaN ELSE Num(DigitsValue(z))

\* a / b of JavaScript, kept as an exact fraction
Divide(a, b) == IF a.nan THEN NaN ELSE Ratio(a.num, a.den * b)

----------------------------------------------------------------------------
(* mapTagNameToType *)

\* mapTagNameToType accepting a match at position 0 as well (>= for >)
mapTagNameToType_AnyPosition(tagName) ==
  IF indexOf(toLowerCase(tagName), <<" ", "a", "d", "s">>) >= 0 THEN "Ads"
  ELSE IF indexOf(toLowerCase(tagName),
                  <<"a", "n", "a", "l", "y", "t", "i", "c", "s">>) >= 0
    THEN "Analytics"
  ELSE "other"

mapTagNameToType(tagName) ==
  IF indexOf(toLowerCase(tagName), <<" ", "a", "d", "s">>) > 0 THEN "Ads"
  ELSE IF indexOf(toLowerCase(tagName),
                  <<"a", "n", "a", "l", "y", "t", "i", "c", "s">>) > 0
    THEN "Analytics"
  ELSE "other"

----------------------------------------------------------------------------
(* Program constants *)

TOKEN_PATH == "token.json"

TEMPLATE_ID == "1fntMyGqNo6Ti-Jj6DPKcyAUcA2U4jSS6g_4DjH_Ozkw"

----------------------------------------------------------------------------
(* Inputs: the command line and what the outside world answers *)

Http == <<"h", "t", "t", "p">>

Urls ==
  { <<>>,
    <<"h", "t", "t">>,
    <<"f", "t", "p", ":", "/", "/", "x">>,
    <<"x", "h", "t", "t", "p">>,
    <<"h", "t", "t", "p", ":", "/", "/", "x">>,
    <<"h", "t", "t", "p", "s", ":", "/", "/", "x">> }

\* no positional argument, or one
Argvs == {<<>>} \cup {<<u>> : u \in Urls}

Item(text, bt, mt, ts) ==
  [entity |-> [text |-> text], blockingTime |-> bt, mainThreadTime |-> mt,
   transferSize |-> ts]

\* records of a third-party-summary: times in ms (fractional), sizes in bytes
ItemSet ==
  { Item(<<"E", "x", " ", "A", "d", "s">>,
         Dec(1507, -1), Dec(3002, -1), Dec(10240, 0)),
    Item(<<"g", "-", "a", "n", "a", "l", "y", "t", "i", "c", "s">>,
         Dec(12349, -1), Dec(0, 0), Dec(2048, 0)),
    Item(<<"c", "d", "n", ".", "x">>,
         Dec(2, -8), Dec(1, -3), Dec(1536, 0)) }

ItemLists == UNION {[1..n -> ItemSet] : n \in 0..MaxItems}

FsErrors == {"ENOENT"}
ApiErrors == {"E403"}
NewIds == {"copy-1", "copy-2"}

----------------------------------------------------------------------------
(* The run *)

PipeInit ==
  /\ pc = "start"
  /\ chrome = "none"
  /\ items = <<>>
  /\ result = <<>>
  /\ cbItems = None
  /\ spreadsheetID = None
  /\ tokenWrite = "none"
  /\ calls = <<>>
  /\ replies = <<>>
  /\ log = <<>>
  /\ fault = None

Init ==
  /\ argv \in Argvs
  /\ PipeInit
  /\ arg = <<>>
  /\ out = None

\* let url = process.argv[2]
url == argv[1]

\* Main rejecting only a URL with no "http" anywhere (== -1 for != 0)
Main_HttpAnywhere ==
  /\ pc = "start"
  /\ IF Len(argv) = 0
       THEN /\ fault' = Some(<<"TypeError", "indexOf of undefined">>)
            /\ pc' = "crashed"
            /\ UNCHANGED <<log, calls>>
     ELSE IF indexOf(url, Http) = -1
       THEN /\ log' = Append(log, <<"Usage: node 3rd-party-impact.js <url>">>)
            /\ pc' = "done"
            /\ UNCHANGED <<fault, calls>>
     ELSE /\ log' = log \o << <<"">>,
                  <<"Program has started. Analysing 3rd party script on: ", url>>,
                  <<"Opening Chrome to make Lighthouse run...">> >>
          /\ calls' = Append(calls, <<"chromeLauncher.launch">>)
          /\ pc' = "launching"
          /\ UNCHANGED fault
  /\ UNCHANGED <<argv, chrome, items, result, cbItems, spreadsheetID,
                 tokenWrite, replies, arg, out>>

\* lines 46-70 and 106-108: the URL check, the banner, chromeLauncher.launch
Main ==
  /\ pc = "start"
  /\ IF Len(argv) = 0
       THEN /\ fault' = Some(<<"TypeError", "indexOf of undefined">>)
            /\ pc' = "crashed"
            /\ UNCHANGED <<log, calls>>
     ELSE IF indexOf(url, Http) # 0
       THEN /\ log' = Append(log, <<"Usage: node 3rd-party-impact.js <url>">>)
            /\ pc' = "done"
            /\ UNCHANGED <<fault, calls>>
     ELSE /\ log' = log \o << <<"">>,
                  <<"Program has started. Analysing 3rd party script on: ", url>>,
                  <<"Opening Chrome to make Lighthouse run...">> >>
          /\ calls' = Append(calls, <<"chromeLauncher.launch">>)
          /\ pc' = "launching"
          /\ UNCHANGED fault
  /\ UNCHANGED <<argv, chrome, items, result, cbItems, spreadsheetID,
                 tokenWrite, replies, arg, out>>

\* lines 108-110: the launch settles; on success Lighthouse is started
LaunchDone ==
  /\ pc = "launching"
  /\ \/ /\ replies' = Append(replies, <<"chromeLauncher.launch", "ok">>)
        /\ chrome' = "alive"
        /\ calls' = Append(calls, <<"lighthouse", url>>)
        /\ pc' = "auditing"
        /\ UNCHANGED fault
     \/ /\ replies' = Append(replies, <<"chromeLauncher.launch", "err">>)
        /\ fault' = Some(<<"unhandledRejection", "launch">>)
        /\ pc' = "rejected"
        /\ UNCHANGED <<chrome, calls>>
  /\ UNCHANGED <<argv, items, result, cbItems, spreadsheetID, tokenWrite, log,
                 arg, out>>

\* LighthouseDone passing the report on without waiting for chrome.kill()
LighthouseDone_KillNotAwaited ==
  /\ pc = "auditing"
  /\ \/ /\ replies' = Append(replies, <<"lighthouse", "ok">>)
        /\ \E its \in ItemLists : items' = its
        /\ calls' = Append(calls, <<"chrome.kill">>)
        /\ pc' = "shaping"
        /\ UNCHANGED fault
     \/ /\ replies' = Append(replies, <<"lighthouse", "err">>)
        /\ fault' = Some(<<"unhandledRejection", "lighthouse">>)
        /\ pc' = "rejected"
        /\ UNCHANGED <<items, calls>>
  /\ UNCHANGED <<argv, chrome, result, cbItems, spreadsheetID, tokenWrite,
                 log, arg, out>>

\* lines 110-111: the audit settles; on success Chrome is asked to exit
LighthouseDone ==
  /\ pc = "auditing"
  /\ \/ /\ replies' = Append(replies, <<"lighthouse", "ok">>)
        /\ \E its \in ItemLists : items' = its
        /\ calls' = Append(calls, <<"chrome.kill">>)
        /\ pc' = "killing"
        /\ UNCHANGED fault
     \/ /\ replies' = Append(replies, <<"lighthouse", "err">>)
        /\ fault' = Some(<<"unhandledRejection", "lighthouse">>)
        /\ pc' = "rejected"
        /\ UNCHANGED <<items, calls>>
  /\ UNCHANGED <<argv, chrome, result, cbItems, spreadsheetID, tokenWrite,
                 log, arg, out>>

\* line 111: chrome.kill() settles; on success results.lhr is passed on
KillDone ==
  /\ pc = "killing"
  /\ \/ /\ replies' = Append(replies, <<"chrome.kill", "ok">>)
        /\ chrome' = "killed"
        /\ pc' = "shaping"
        /\ UNCHANGED fault
     \/ /\ replies' = Append(replies, <<"chrome.kill", "err">>)
        /\ fault' = Some(<<"unhandledRejection", "kill">>)
        /\ pc' = "rejected"
        /\ UNCHANGED chrome
  /\ UNCHANGED <<argv, items, result, cbItems, spreadsheetID, tokenWrite,
                 calls, log, arg, out>>

\* lines 78-83: the row of one item
Row(u, it) ==
  LET tagName        == it.entity.text
      type           == mapTagNameToType(tagName)
      blockingTime   == parseInt(it.blockingTime)
      mainThreadTime == parseInt(it.mainThreadTime)
      transferSize   == Divide(parseInt(it.transferSize), 1024)
  IN  <<u, tagName, type, blockingTime, mainThreadTime, transferSize>>

\* ShapeRows putting each new row in front (unshift for push)
ShapeRows_Reversed(u, its) ==
  [i \in 1..Len(its) |-> Row(u, its[Len(its) + 1 - i])]

\* lines 72-84: for (item in items) result.push(...), in index order
ShapeRows(u, its) == [i \in 1..Len(its) |-> Row(u, its[i])]

\* lines 70-87: the continuation of the audit: rows, then credentials.json
Shape ==
  /\ pc = "shaping"
  /\ result' = ShapeRows(url, items)
  /\ log' = Append(log, <<"items", items>>)
  /\ calls' = Append(calls, <<"fs.readFile", "credentials.json">>)
  /\ pc' = "readCreds"
  /\ UNCHANGED <<argv, chrome, items, cbItems, spreadsheetID, tokenWrite,
                 replies, fault, arg, out>>

\* lines 141-149: addResultsToSpeadsheet(auth, items) up to the copy request,
\* called when the calls made so far are cs
addResultsToSpeadsheet(cs, itemsArg) ==
  /\ cbItems' = itemsArg
  /\ log' = Append(log, <<"Making a copy of the report TEMPLATE file....">>)
  /\ calls' = Append(cs, <<"drive.files.copy", TEMPLATE_ID>>)
  /\ pc' = "copy"

\* lines 198 and 210-220: getNewToken(oAuth2Client, callback) up to the prompt
getNewToken ==
  /\ log' = Append(log, <<"Authorize this app by visiting this url:">>)
  /\ calls' = Append(calls, <<"rl.question">>)
  /\ pc' = "prompt"

\* CredentialsRead logging the read error and going on (no return)
CredentialsRead_NoReturn ==
  /\ pc = "readCreds"
  /\ \/ \E err \in FsErrors :
          /\ replies' = Append(replies, <<"credentials.json", "err", err>>)
          /\ log' = Append(log, <<"Error loading client secret file:", err>>)
          /\ calls' = Append(calls, <<"fs.readFile", TOKEN_PATH>>)
          /\ pc' = "readToken"
          /\ UNCHANGED fault
     \/ /\ replies' = Append(replies, <<"credentials.json", "malformed">>)
        /\ fault' = Some(<<"SyntaxError", "credentials.json">>)
        /\ pc' = "crashed"
        /\ UNCHANGED <<calls, log>>
     \/ /\ replies' = Append(replies, <<"credentials.json", "ok">>)
        /\ calls' = Append(calls, <<"fs.readFile", TOKEN_PATH>>)
        /\ pc' = "readToken"
        /\ UNCHANGED <<log, fault>>
  /\ UNCHANGED <<argv, chrome, items, result, cbItems, spreadsheetID,
                 tokenWrite, arg, out>>

\* lines 87-92 and 191-197: credentials.json was read (or not); authorize
CredentialsRead ==
  /\ pc = "readCreds"
  /\ \/ \E err \in FsErrors :
          /\ replies' = Append(replies, <<"credentials.json", "err", err>>)
          /\ log' = Append(log, <<"Error loading client secret file:", err>>)
          /\ pc' = "done"
          /\ UNCHANGED <<calls, fault>>
     \/ /\ replies' = Append(replies, <<"credentials.json", "malformed">>)
        /\ fault' = Some(<<"SyntaxError", "credentials.json">>)
        /\ pc' = "crashed"
        /\ UNCHANGED <<calls, log>>
     \/ /\ replies' = Append(replies, <<"credentials.json", "ok">>)
        /\ calls' = Append(calls, <<"fs.readFile", TOKEN_PATH>>)
        /\ pc' = "readToken"
        /\ UNCHANGED <<log, fault>>
  /\ UNCHANGED <<argv, chrome, items, result, cbItems, spreadsheetID,
                 tokenWrite, arg, out>>

\* lines 197-201: token.json was read (or not)
TokenRead ==
  /\ pc = "readToken"
  /\ \/ \E err \in FsErrors :
          /\ replies' = Append(replies, <<TOKEN_PATH, "err", err>>)
          /\ getNewToken
          /\ UNCHANGED <<cbItems, fault>>
     \/ /\ replies' = Append(replies, <<TOKEN_PATH, "malformed">>)
        /\ fault' = Some(<<"SyntaxError", TOKEN_PATH>>)
        /\ pc' = "crashed"
        /\ UNCHANGED <<cbItems, calls, log>>
     \/ /\ replies' = Append(replies, <<TOKEN_PATH, "ok">>)
        /\ addResultsToSpeadsheet(calls, Some(result))
        /\ UNCHANGED fault
  /\ UNCHANGED <<argv, chrome, items, result, spreadsheetID, tokenWrite,
                 arg, out>>

\* lines 220-222: the operator typed the code; it is exchanged for a token
CodeEntered ==
  /\ pc = "prompt"
  /\ replies' = Append(replies, <<"rl.question", "ok">>)
  /\ calls' = Append(calls, <<"oAuth2Client.getToken">>)
  /\ pc' = "getToken"
  /\ UNCHANGED <<argv, chrome, items, result, cbItems, spreadsheetID,
                 tokenWrite, log, fault, arg, out>>

\* lines 222-231: the exchange settles; on success the token is written to
\* disk in the background and callback(oAuth2Client) is called, with no items
GetTokenDone ==
  /\ pc = "getToken"
  /\ \/ \E err \in ApiErrors :
          /\ replies' = Append(replies, <<"oAuth2Client.getToken", "err", err>>)
          /\ log' = Append(log,
                       <<"Error while trying to retrieve access token", err>>)
          /\ pc' = "done"
          /\ UNCHANGED <<cbItems, calls, tokenWrite>>
     \/ /\ replies' = Append(replies, <<"oAuth2Client.getToken", "ok">>)
        /\ tokenWrite' = "pending"
        /\ addResultsToSpeadsheet(
             Append(calls, <<"fs.writeFile", TOKEN_PATH>>), None)
  /\ UNCHANGED <<argv, chrome, items, result, spreadsheetID, fault, arg, out>>

\* lines 226-229: the write of token.json settles
TokenWriteDone ==
  /\ tokenWrite = "pending"
  /\ tokenWrite' = "done"
  /\ \/ \E err \in FsErrors :
          /\ replies' = Append(replies, <<"fs.writeFile", "err", err>>)
          /\ log' = Append(log, <<"console.error", err>>)
     \/ /\ replies' = Append(replies, <<"fs.writeFile", "ok">>)
        /\ log' = Append(log, <<"Token stored to", TOKEN_PATH>>)
  /\ UNCHANGED <<argv, pc, chrome, items, result, cbItems, spreadsheetID,
                 calls, fault, arg, out>>

\* lines 173-178: writeSheet sends the one update request
writeSheet(spreadsheetId, range, valueInputOption, values) ==
  calls' = Append(calls, <<"sheets.spreadsheets.values.update",
                           spreadsheetId, range, valueInputOption, values>>)

\* CopyDone logging the copy error and writing into the template (no return)
CopyDone_NoReturn ==
  /\ pc = "copy"
  /\ \/ \E err \in ApiErrors :
          /\ replies' = Append(replies, <<"drive.files.copy", "err", err>>)
          /\ log' = Append(log, <<"The API returned an error: ", err>>)
          /\ writeSheet(TEMPLATE_ID, "Actions!A2:F", "RAW", cbItems)
          /\ pc' = "update"
          /\ UNCHANGED spreadsheetID
     \/ \E id \in NewIds :
          /\ replies' = Append(replies, <<"drive.files.copy", "ok", id>>)
          /\ spreadsheetID' = Some(id)
          /\ log' = Append(log,
                       <<"Now writing results into new spreadsheet: ", id>>)
          /\ writeSheet(id, "Actions!A2:F", "RAW", cbItems)
          /\ pc' = "update"
  /\ UNCHANGED <<argv, chrome, items, result, cbItems, tokenWrite, fault,
                 arg, out>>

\* lines 149-156: the copy settles; on success the rows are written
CopyDone ==
  /\ pc = "copy"
  /\ \/ \E err \in ApiErrors :
          /\ replies' = Append(replies, <<"drive.files.copy", "err", err>>)
          /\ log' = Append(log, <<"The API returned an error: ", err>>)
          /\ pc' = "done"
          /\ UNCHANGED <<spreadsheetID, calls>>
     \/ \E id \in NewIds :
          /\ replies' = Append(replies, <<"drive.files.copy", "ok", id>>)
          /\ spreadsheetID' = Some(id)
          /\ log' = Append(log,
                       <<"Now writing results into new spreadsheet: ", id>>)
          /\ writeSheet(id, "Actions!A2:F", "RAW", cbItems)
          /\ pc' = "update"
  /\ UNCHANGED <<argv, chrome, items, result, cbItems, tokenWrite, fault,
                 arg, out>>

\* response.data.updatedCells: the cell count the backend reports
UpdatedCells(values) == IF values.defined THEN 6 * Len(values.val) ELSE 0

\* lines 156-158 and 178: the update settles
UpdateDone ==
  /\ pc = "update"
  /\ \/ /\ replies' = Append(replies, <<"sheets.spreadsheets.values.update",
                                        "ok", UpdatedCells(cbItems)>>)
        /\ log' = Append(log, <<"%d cells updated.", UpdatedCells(cbItems)>>)
        /\ pc' = "done"
        /\ UNCHANGED fault
     \/ \E err \in ApiErrors :
          /\ replies' = Append(replies, <<"sheets.spreadsheets.values.update",
                                          "err", err>>)
          /\ fault' = Some(<<"unhandledRejection", err>>)
          /\ pc' = "rejected"
          /\ UNCHANGED log
  /\ UNCHANGED <<argv, chrome, items, result, cbItems, spreadsheetID,
                 tokenWrite, calls, arg, out>>

Next ==
  \/ Main
  \/ LaunchDone
  \/ LighthouseDone
  \/ KillDone
  \/ Shape
  \/ CredentialsRead
  \/ TokenRead
  \/ CodeEntered
  \/ GetTokenDone
  \/ TokenWriteDone
  \/ CopyDone
  \/ UpdateDone

Spec == Init /\ [][Next]_vars

----------------------------------------------------------------------------
(* mapTagNameToType on its own *)

Frags ==
  { <<" ", "a", "d", "s">>,
    <<" ", "A", "D", "S">>,
    <<"a", "d", "s">>,
    <<"a", "n", "a", "l", "y", "t", "i", "c", "s">>,
    <<"A", "n", "a", "l", "y", "t", "i", "c", "s">>,
    <<"x">>,
    <<" ">> }

RECURSIVE NamesOf(_)
\* the names made of exactly n fragments
NamesOf(n) ==
  IF n = 0 THEN {<<>>}
  ELSE {f \o r : f \in Frags, r \in NamesOf(n - 1)}

Names == UNION {NamesOf(n) : n \in 0..MaxFrags}

InitClassify ==
  /\ argv = <<>>
  /\ PipeInit
  /\ arg \in Names
  /\ out = None

Classify ==
  /\ ~out.defined
  /\ out' = Some(mapTagNameToType(arg))
  /\ UNCHANGED <<pipeVars, arg>>

NextClassify == Classify

SpecClassify == InitClassify /\ [][NextClassify]_vars

----------------------------------------------------------------------------
(* Vocabulary of the properties *)

Usage == <<"Usage: node 3rd-party-impact.js <url>">>

\* p is a prefix of s
HasPrefix(s, p) == Len(s) >= Len(p) /\ SubSeq(s, 1, Len(p)) = p

\* p occurs in s at 0-based position i
OccursAt(s, p, i) == i + Len(p) <= Len(s) /\ SubSeq(s, i + 1, i + Len(p)) = p

\* p occurs in s at some position > 0
OccursAfterStart(s, p) == \E i \in 1..Len(s) : OccursAt(s, p, i)

AdsPat == <<" ", "a", "d", "s">>
AnalyticsPat == <<"a", "n", "a", "l", "y", "t", "i", "c", "s">>

UrlGiven == Len(argv) = 1
HttpRun == UrlGiven /\ HasPrefix(argv[1], Http)
NotHttpRun == UrlGiven /\ ~HasPrefix(argv[1], Http)

Called(op) == \E i \in DOMAIN calls : calls[i][1] = op
Count(op) == Cardinality({i \in DOMAIN calls : calls[i][1] = op})
Replied(op, how) ==
  \E i \in DOMAIN replies : replies[i][1] = op /\ replies[i][2] = how
Logged(tag, err) ==
  \E j \in DOMAIN log : log[j][1] = tag /\ log[j][2] = err
LoggedTag(tag) == \E j \in DOMAIN log : log[j][1] = tag

UpdateOp == "sheets.spreadsheets.values.update"

\* the value of a decimal cut down to its integer part
RECURSIVE Trunc(_)
Trunc(d) ==
  IF d.e >= 0 THEN d.s * Pow10(d.e) ELSE Trunc(Dec(d.s \div 10, d.e + 1))

\* the rows exist once the then-callback of the audit has run
Shaped == Called("fs.readFile")

----------------------------------------------------------------------------
(* C1: when the URL argument is a string that does not begin with "http"   *)
(* (the empty string included), the run prints the usage message and makes *)
(* no external call at all: no launch, no audit, no file read, no OAuth,   *)
(* no copy, no update.                                                     *)
C1_NoHttpNoCalls ==
  NotHttpRun =>
    /\ calls = <<>>
    /\ replies = <<>>
    /\ chrome = "none"
    /\ pc \in {"start", "done"}
    /\ pc = "done" => log = <<Usage>>

C1_Witness == NotHttpRun /\ argv[1] = <<>> /\ pc = "done" /\ log = <<Usage>>

(* C2 as stated: "Ads" exactly when the lower-cased name has " ads" at some *)
(* position > 0; otherwise "Analytics" exactly when it has "analytics" at  *)
(* some position > 0; otherwise "other".                                   *)
C2_Original ==
  out.defined =>
    LET l == toLowerCase(arg)
    IN  /\ (out.val = "Ads") <=> OccursAfterStart(l, AdsPat)
        /\ (out.val = "Analytics") <=>
             (~OccursAfterStart(l, AdsPat) /\ OccursAfterStart(l, AnalyticsPat))
        /\ out.val \in {"Ads", "Analytics", "other"}

(* C2 amended: "Ads" exactly when the lower-cased name has " ads" at some   *)
(* position > 0 and not at position 0; otherwise "Analytics" exactly when  *)
(* it has "analytics" at some position > 0 and not at position 0;          *)
(* otherwise "other".                                                      *)
C2_FirstOccurrence ==
  out.defined =>
    LET l   == toLowerCase(arg)
        ads == OccursAfterStart(l, AdsPat) /\ ~OccursAt(l, AdsPat, 0)
        ana == OccursAfterStart(l, AnalyticsPat) /\ ~OccursAt(l, AnalyticsPat, 0)
    IN  /\ (out.val = "Ads") <=> ads
        /\ (out.val = "Analytics") <=> (~ads /\ ana)
        /\ (out.val = "other") <=> (~ads /\ ~ana)

\* a name with both substrings after position 0 was classified as "Ads"
C2_Witness ==
  /\ out.defined
  /\ out.val = "Ads"
  /\ OccursAfterStart(toLowerCase(arg), AnalyticsPat)
  /\ arg # toLowerCase(arg)

(* C3: once the rows are built there are exactly as many rows as items,     *)
(* row i is built from item i, every row has the six columns [url, entity  *)
(* name, type, blocking time, main-thread time, transfer size] and its     *)
(* first column is the URL argument verbatim.                              *)
C3_RowsFollowItems ==
  Shaped =>
    /\ Len(result) = Len(items)
    /\ \A i \in 1..Len(items) :
         /\ Len(result[i]) = 6
         /\ result[i][1] = argv[1]
         /\ result[i][2] = items[i].entity.text
         /\ result[i][3] = mapTagNameToType(items[i].entity.text)
         /\ result[i][4] = parseInt(items[i].blockingTime)
         /\ result[i][5] = parseInt(items[i].mainThreadTime)
         /\ result[i][6].num * 1024 = Trunc(items[i].transferSize) * result[i][6].den

C3_Witness ==
  /\ Shaped
  /\ Len(items) = 2
  /\ items[1] # items[2]
  /\ Len(result) = 2

(* C4: every update-values request carries exactly the rows assembled from  *)
(* the audit result, whether the token came from token.json or from the    *)
(* interactive flow, and there is at most one such request.                *)
C4_UpdateCarriesRows ==
  /\ Count(UpdateOp) <= 1
  /\ \A i \in DOMAIN calls :
       calls[i][1] = UpdateOp => (calls[i][5].defined /\ calls[i][5].val = result)

(* C5: when the copy of the template fails the error is reported and no     *)
(* update-values request is issued; an update-values request is issued     *)
(* only after a successful copy, against the identifier that copy          *)
(* returned, never against the template.                                   *)
C5_NoUpdateWithoutCopy ==
  /\ \A err \in ApiErrors :
       Replied("drive.files.copy", "err") =>
         /\ Logged("The API returned an error: ", err)
         /\ ~Called(UpdateOp)
         /\ pc = "done"
  /\ \A i \in DOMAIN calls :
       calls[i][1] = UpdateOp =>
         /\ calls[i][2] # TEMPLATE_ID
         /\ \E j \in DOMAIN replies :
              /\ replies[j][1] = "drive.files.copy"
              /\ replies[j][2] = "ok"
              /\ replies[j][3] = calls[i][2]

C5_Witness ==
  /\ Replied("drive.files.copy", "err")
  /\ pc = "done"
  /\ Len(result) > 0

(* C6 as stated: when credentials.json cannot be read the error is logged   *)
(* and there has been no browser launch, no audit call, no OAuth call and  *)
(* no spreadsheet or drive call in the run.                                *)
C6_Original ==
  Replied("credentials.json", "err") =>
    /\ \E err \in FsErrors : Logged("Error loading client secret file:", err)
    /\ ~Called("chromeLauncher.launch")
    /\ ~Called("lighthouse")
    /\ ~Called("rl.question")
    /\ ~Called("oAuth2Client.getToken")
    /\ ~Called("drive.files.copy")
    /\ ~Called(UpdateOp)

(* C6 amended: when credentials.json cannot be read the error is logged and *)
(* the run ends with no token-file read, no OAuth call and no spreadsheet  *)
(* or drive call; the browser launch and the audit have by then each       *)
(* happened once and the browser has been killed.                          *)
C6_AbortsBeforeDelivery ==
  Replied("credentials.json", "err") =>
    /\ \E err \in FsErrors : Logged("Error loading client secret file:", err)
    /\ pc = "done"
    /\ Count("fs.readFile") = 1
    /\ ~Called("rl.question")
    /\ ~Called("oAuth2Client.getToken")
    /\ ~Called("fs.writeFile")
    /\ ~Called("drive.files.copy")
    /\ ~Called(UpdateOp)
    /\ Count("chromeLauncher.launch") = 1
    /\ Count("lighthouse") = 1
    /\ chrome = "killed"

C6_Witness ==
  /\ Replied("credentials.json", "err")
  /\ pc = "done"
  /\ Replied("lighthouse", "ok")

(* C7: when no URL argument is given the run prints the usage line and      *)
(* returns without any network or browser action, as for a non-http URL.   *)
C7_MissingUrlPrintsUsage ==
  (~UrlGiven /\ pc # "start") =>
    /\ pc = "done"
    /\ log = <<Usage>>
    /\ calls = <<>>

(* C8: in every row the blocking time and the main-thread time are the      *)
(* item's values truncated to integers, and the transfer size is the       *)
(* item's byte count divided by 1024, neither rounded nor truncated.       *)
C8_UnitConversion ==
  Shaped =>
    \A i \in 1..Len(result) :
      /\ result[i][4] = Num(Trunc(items[i].blockingTime))
      /\ result[i][5] = Num(Trunc(items[i].mainThreadTime))
      /\ ~result[i][6].nan
      /\ result[i][6].num * 1024 = Trunc(items[i].transferSize) * result[i][6].den

(* C9: a failure of the copy-file call or of the update-values call is      *)
(* logged by the program with the backend's error and the run ends; when   *)
(* the update fails after a successful copy the error is logged and no     *)
(* count of updated cells is reported.                                     *)
C9_BackendErrorsLogged ==
  \A err \in ApiErrors :
    /\ Replied("drive.files.copy", "err") =>
         (Logged("The API returned an error: ", err) /\ pc = "done")
    /\ Replied(UpdateOp, "err") =>
         /\ \E j \in DOMAIN log : Len(log[j]) = 2 /\ log[j][1] # "items"
                /\ log[j][1] # "%d cells updated."
                /\ log[j][1] # "Program has started. Analysing 3rd party script on: "
                /\ log[j][2] = err
         /\ ~LoggedTag("%d cells updated.")

(* C10: a run with an http-prefixed URL launches Chrome exactly once; the   *)
(* audit starts only after the launch has completed; the instance is       *)
(* killed after the audit and before the rows are built, so it is not      *)
(* alive during the credentials read, the OAuth flow, the copy or the      *)
(* update.                                                                 *)
C10_BrowserLifetime ==
  /\ Count("chromeLauncher.launch") <= 1
  /\ (HttpRun /\ pc # "start") => Count("chromeLauncher.launch") = 1
  /\ Called("lighthouse") => Replied("chromeLauncher.launch", "ok")
  /\ Called("chrome.kill") => Replied("lighthouse", "ok")
  /\ pc = "shaping" => (chrome = "killed" /\ Replied("chrome.kill", "ok"))
  /\ ( \/ Called("fs.readFile") \/ Called("rl.question")
       \/ Called("oAuth2Client.getToken") \/ Called("fs.writeFile")
       \/ Called("drive.files.copy") \/ Called(UpdateOp) )
       => (chrome = "killed" /\ Replied("chrome.kill", "ok"))

C10_Witness ==
  /\ HttpRun
  /\ Called(UpdateOp)
  /\ Called("rl.question")
  /\ chrome = "killed"

====
